---- MODULE Spec2Model ----
(***************************************************************************)
(* Model of the GoFigure Displays order extraction scripts:                *)
(*   src/fetch_orders.py       extract_orders_from_text, extract_all_orders *)
(*   src/get_order_details.py  find_order_index, extract_order_details      *)
(*                                                                         *)
(* Text is a TLA+ string; a page body is kept as the sequence of its raw   *)
(* lines (what str.splitlines() returns).  Regular expressions are         *)
(* translated into scanners over the characters of a line.                 *)
(***************************************************************************)
EXTENDS Integers, Sequences, FiniteSets, TLC

VARIABLES
    full,          \* page: every raw line the order-history view can show
    shown,         \* page: number of lines of `full` currently rendered
    links,         \* page: href outcome of each 'Track order' anchor
    loading,       \* page: a 'See more' click is being served
    clicks,        \* page: 'See more' clicks received, counted up to MaxClicks
    prog,          \* which entry point this run executes
    pc,            \* position of the running function
    seen_count,    \* extract_all_orders: seen_count
    all_orders,    \* extract_all_orders: all_orders
    orders,        \* extract_all_orders: orders (last parse)
    target_date,   \* find_order_index: argument target_date
    lines,         \* find_order_index: lines (last parse)
    current_count, \* find_order_index: current_count
    order_index,   \* find_order_index: return value (None or an index)
    text,          \* extract_order_details: raw lines of the detail page
    imgs,          \* extract_order_details: src outcome of each item image
    groups,        \* the item groups the detail text was rendered from
    details,       \* extract_order_details: returned record
    raised,        \* exception that left the running function, or "none"
    mpc,           \* main: position in get_order_details.main, "none" outside it
    history_open,  \* page: the order-history view is rendered in the body
    log,           \* what the run has done to the browser and the terminal
    outfile,       \* main: the order file written, None before
    status,        \* main: "running", or how the process ended
    scan_lines,    \* item scan: item_lines
    scan_i,        \* item scan: the cursor i, counted from 1
    scan_items,    \* item scan: items
    roles,         \* item scan: how each line read so far was consumed
    catalog,       \* find_heartland_item: argument items
    order_item,    \* find_heartland_item: argument order_item
    heartland_item \* find_heartland_item: return value, Unstarted before the call

vars == <<full, shown, links, loading, clicks, prog, pc, seen_count, all_orders,
          orders, target_date, lines, current_count, order_index,
          text, imgs, groups, details, raised,
          mpc, history_open, log, outfile, status,
          scan_lines, scan_i, scan_items, roles,
          catalog, order_item, heartland_item>>

pageVars == <<full, shown, links, loading, clicks>>
fetchVars == <<seen_count, all_orders, orders>>
findVars == <<target_date, lines, current_count, order_index>>
detailVars == <<text, imgs, groups, details>>
mainVars == <<mpc, history_open, log, outfile, status>>
scanVars == <<scan_lines, scan_i, scan_items, roles>>
matchVars == <<catalog, order_item, heartland_item>>

(***************************************************************************)
(* Bounds of the model.                                                    *)
(***************************************************************************)
MaxLines == 3
MaxLinks == 2
MaxGroups == 2
MaxBlock == 3
MaxTail == 5
MaxImgs == 2
MaxClicks == 2
MaxHeader == 3

\* Python values that are not always of one type: None, or an int (IntVal)
None == [kind |-> "None"]
IntVal(k) == [kind |-> "int", value |-> k]
Unstarted == [kind |-> "unstarted"]

(***************************************************************************)
(* Characters and strings.                                                 *)
(***************************************************************************)
UpperSeq == "ABCDEFGHIJKLMNOPQRSTUVWXYZ"
LowerSeq == "abcdefghijklmnopqrstuvwxyz"
DigitSeq == "0123456789"

CharsOf(s) == {SubSeq(s, i, i) : i \in 1..Len(s)}

Letters == CharsOf(UpperSeq) \cup CharsOf(LowerSeq)
Digits == CharsOf(DigitSeq)
Spaces == {" ", "\t"}

\* s[i] as a one-character string, "" past the end
At(s, i) == IF i >= 1 /\ i <= Len(s) THEN SubSeq(s, i, i) ELSE ""

\* the first position >= i of s whose character is outside class
RECURSIVE SkipClass(_, _, _)
SkipClass(s, i, class) ==
    IF At(s, i) \in class THEN SkipClass(s, i + 1, class) ELSE i

\* str.startswith
StartsWith(s, prefix) ==
    Len(s) >= Len(prefix) /\ SubSeq(s, 1, Len(prefix)) = prefix

\* str.strip(): drop leading and trailing whitespace
RECURSIVE RStrip(_)
RStrip(s) ==
    IF Len(s) > 0 /\ At(s, Len(s)) \in Spaces
    THEN RStrip(SubSeq(s, 1, Len(s) - 1))
    ELSE s

Strip(s) ==
    LET b == SkipClass(s, 1, Spaces)
    IN  RStrip(SubSeq(s, b, Len(s)))

\* str.lower()
Uppers == CharsOf(UpperSeq)

LowerOf == [c \in Uppers |->
               At(LowerSeq, CHOOSE k \in 1..Len(UpperSeq) : At(UpperSeq, k) = c)]

LowerChar(c) == IF c \in Uppers THEN LowerOf[c] ELSE c

RECURSIVE Lower(_)
Lower(s) ==
    IF Len(s) <= 1 THEN LowerChar(s)
    ELSE LET h == Len(s) \div 2
         IN  Lower(SubSeq(s, 1, h)) \o Lower(SubSeq(s, h + 1, Len(s)))

DigitValue(c) == (CHOOSE k \in 1..Len(DigitSeq) : At(DigitSeq, k) = c) - 1

\* int() of a string of digits; characters that are not digits are dropped,
\* which is what .replace(",", "") does to an amount before float()
RECURSIVE DigitsToInt(_, _)
DigitsToInt(s, acc) ==
    IF s = "" THEN acc
    ELSE LET c == At(s, 1)
             rest == SubSeq(s, 2, Len(s))
         IN  IF c \in Digits
             THEN DigitsToInt(rest, acc * 10 + DigitValue(c))
             ELSE DigitsToInt(rest, acc)

ParseInt(s) == DigitsToInt(s, 0)

\* float(amount.replace(",", "")) for "<digits and commas>.<dd>", in cents
ParseAmount(s) == DigitsToInt(s, 0)

\* [l.strip() for l in body_text.splitlines()]
StripAll(raw) == [i \in 1..Len(raw) |-> Strip(raw[i])]

\* every sequence over S of length at most n
SeqUpTo(S, n) == UNION {[1..k -> S] : k \in 0..n}

\* s[a..b] clipped to the string, "" when the range is empty
Slice(s, a, b) ==
    LET e == IF b > Len(s) THEN Len(s) ELSE b
    IN  IF a < 1 \/ a > e THEN "" ELSE SubSeq(s, a, e)

(***************************************************************************)
(* The patterns of the order-history page.                                 *)
(***************************************************************************)
BASE_URL == "https://www.gofigdisplays.com"

NoMatch == [matched |-> FALSE]

\* ORDER_LINE_RE.match(s):
\* ^(?P<date>[A-Za-z]+ \d{1,2})\s*-\s*\$(?P<amount>[\d,]+\.\d{2})\s*-\s*(?P<items>\d+) Items?$
ORDER_LINE_RE(s) ==
    LET p1 == SkipClass(s, 1, Letters)
        p2 == SkipClass(s, p1 + 1, Digits)
        p3 == SkipClass(s, p2, Spaces)
        p4 == SkipClass(s, p3 + 1, Spaces)
        p5 == SkipClass(s, p4 + 1, Digits \cup {","})
        p6 == SkipClass(s, p5 + 3, Spaces)
        p7 == SkipClass(s, p6 + 1, Spaces)
        p8 == SkipClass(s, p7, Digits)
    IN  IF /\ p1 > 1
           /\ At(s, p1) = " "
           /\ p2 - (p1 + 1) \in 1..2
           /\ At(s, p3) = "-"
           /\ At(s, p4) = "$"
           /\ p5 > p4 + 1
           /\ At(s, p5) = "."
           /\ At(s, p5 + 1) \in Digits
           /\ At(s, p5 + 2) \in Digits
           /\ At(s, p6) = "-"
           /\ p8 > p7
           /\ Slice(s, p8, Len(s)) \in {" Item", " Items"}
        THEN [matched |-> TRUE,
              date |-> SubSeq(s, 1, p2 - 1),
              amount |-> SubSeq(s, p4 + 1, p5 + 2),
              items |-> SubSeq(s, p7, p8 - 1)]
        ELSE NoMatch

IsOrderLine(s) == ORDER_LINE_RE(s).matched

\* one match of /[A-Za-z]+ \d{1,2} - \$/ starting at position i of s:
\* the position after the match, 0 when there is none
SeeMoreReAt(s, i) ==
    LET p1 == SkipClass(s, i, Letters)
        p2 == SkipClass(s, p1 + 1, Digits)
    IN  IF /\ p1 > i
           /\ At(s, p1) = " "
           /\ p2 - (p1 + 1) \in 1..2
           /\ Slice(s, p2, p2 + 3) = " - $"
        THEN p2 + 4
        ELSE 0

\* s.match(/[A-Za-z]+ \d{1,2} - \$/g)?.length from position i on, 0 for null
RECURSIVE SeeMoreReCount(_, _)
SeeMoreReCount(s, i) ==
    IF i > Len(s) THEN 0
    ELSE LET e == SeeMoreReAt(s, i)
         IN  IF e > 0 THEN 1 + SeeMoreReCount(s, e)
             ELSE SeeMoreReCount(s, i + 1)

\* the number of matches in document.body.innerText; no match spans a line
RECURSIVE InnerTextMatchCount(_)
InnerTextMatchCount(raw) ==
    IF raw = <<>> THEN 0
    ELSE SeeMoreReCount(Head(raw), 1) + InnerTextMatchCount(Tail(raw))

\* /[A-Za-z]+ \d{1,2} - \$[\d,]+\.\d{2} - \d+ Items?/ matching at position i
OrderDataReAt(s, i) ==
    LET p1 == SkipClass(s, i, Letters)
        p2 == SkipClass(s, p1 + 1, Digits)
        p5 == SkipClass(s, p2 + 4, Digits \cup {","})
        p8 == SkipClass(s, p5 + 6, Digits)
    IN  /\ p1 > i
        /\ At(s, p1) = " "
        /\ p2 - (p1 + 1) \in 1..2
        /\ Slice(s, p2, p2 + 3) = " - $"
        /\ p5 > p2 + 4
        /\ At(s, p5) = "."
        /\ At(s, p5 + 1) \in Digits
        /\ At(s, p5 + 2) \in Digits
        /\ Slice(s, p5 + 3, p5 + 5) = " - "
        /\ p8 > p5 + 6
        /\ Slice(s, p8, p8 + 4) = " Item"

\* the test click_order_history waits for, on document.body.innerText
OrderDataVisible(raw) ==
    \E k \in 1..Len(raw) : \E i \in 1..Len(raw[k]) : OrderDataReAt(raw[k], i)

(***************************************************************************)
(* fetch_orders.py: one parse of the summary rows.                         *)
(***************************************************************************)
\* dict.get(i, "") on the links collected for the anchors, i counted from 0
LinkOutcome(el) ==
    IF el.kind = "timeout" THEN ""
    ELSE LET href == IF el.kind = "none" THEN "" ELSE el.value
         IN  IF StartsWith(href, "http") THEN href ELSE BASE_URL \o href

collect_track_order_links(anchors) ==
    [i \in 0..(Len(anchors) - 1) |-> LinkOutcome(anchors[i + 1])]

\* track_links.get(i, "")
LinkGetNext(track_links, i) ==
    IF i + 1 \in DOMAIN track_links THEN track_links[i + 1] ELSE ""

LinkGet(track_links, i) ==
    IF i \in DOMAIN track_links THEN track_links[i] ELSE ""

OrderRecord(line, track_url) ==
    LET m == ORDER_LINE_RE(line)
    IN  [date |-> m.date,
         amount |-> ParseAmount(m.amount),
         items |-> ParseInt(m.items),
         track_url |-> track_url]

extract_orders_from_text(raw, anchors) ==
    LET track_links == collect_track_order_links(anchors)
        matching == SelectSeq(StripAll(raw), IsOrderLine)
    IN  [i \in 1..Len(matching) |->
            OrderRecord(matching[i], LinkGet(track_links, i - 1))]

(***************************************************************************)
(* The order-history page.  'See more' reveals further lines of the same   *)
(* view; the lines already rendered stay where they are.                   *)
(***************************************************************************)
LineUniverse ==
    { "Feb 2 - $5.00 - 1 Item",
      "  MAR 3 - $1,234.50 - 12 Items ",
      "Feb 2-$7.00-2 Items",
      "Refund Feb 2 - $5.00",
      "Track order" }

TargetUniverse == {"feb 2", " Mar 3 ", "Apr 4"}

AnchorUniverse ==
    { [kind |-> "attr", value |-> "/track/1"],
      [kind |-> "attr", value |-> "https://t.example/2"],
      [kind |-> "none"],
      [kind |-> "timeout"] }

\* page.inner_text("body").splitlines()
Page == SubSeq(full, 1, shown)

\* the page receives a click on 'See more'
Clicked ==
    /\ loading' = TRUE
    /\ clicks' = IF clicks < MaxClicks THEN clicks + 1 ELSE clicks
    /\ UNCHANGED <<full, shown, links>>

\* the page serves a click: more lines of the view are rendered
Reveal ==
    /\ loading
    /\ shown < Len(full)
    /\ \E n \in (shown + 1)..Len(full) : shown' = n
    /\ loading' = FALSE
    /\ UNCHANGED <<full, links, clicks, prog, pc, fetchVars, findVars, detailVars,
                 raised, mainVars, scanVars, matchVars>>

(***************************************************************************)
(* fetch_orders.py: extract_all_orders.                                    *)
(***************************************************************************)
\* orders[seen_count:]
NewRowsRepeated(parsed, seen) == parsed

NewRowsSkipping(parsed, seen) == SubSeq(parsed, seen + 2, Len(parsed))

NewRows(parsed, seen) == SubSeq(parsed, seen + 1, Len(parsed))

\* orders = extract_orders_from_text(page); all_orders.extend(...); seen_count = ...
AllParse ==
    /\ prog = "extract_all_orders"
    /\ pc = "parse"
    /\ LET parsed == extract_orders_from_text(Page, links)
       IN  /\ orders' = parsed
           /\ all_orders' = all_orders \o NewRows(parsed, seen_count)
           /\ seen_count' = Len(parsed)
    /\ pc' = "see_more"
    /\ UNCHANGED <<pageVars, prog, findVars, detailVars, raised, mainVars, scanVars, matchVars>>

\* see_more.wait_for(state="visible") returns and see_more.click() is done
AllClickSeeMore ==
    /\ prog = "extract_all_orders"
    /\ pc = "see_more"
    /\ Clicked
    /\ pc' = "wait"
    /\ UNCHANGED <<prog, fetchVars, findVars, detailVars, raised, mainVars, scanVars, matchVars>>

\* wait_for times out, or click raises: except (PlaywrightTimeout, Exception): break
AllNoSeeMore ==
    /\ prog = "extract_all_orders"
    /\ pc = "see_more"
    /\ pc' = "done"
    /\ UNCHANGED <<pageVars, prog, fetchVars, findVars, detailVars, raised, mainVars, scanVars, matchVars>>

\* the predicate page.wait_for_function polls after a click
MoreRowsThan(n) == InnerTextMatchCount(Page) > n

\* page.wait_for_function(...) returns: next iteration
AllWaitDone ==
    /\ prog = "extract_all_orders"
    /\ pc = "wait"
    /\ MoreRowsThan(seen_count)
    /\ pc' = "parse"
    /\ UNCHANGED <<pageVars, prog, fetchVars, findVars, detailVars, raised, mainVars, scanVars, matchVars>>

\* page.wait_for_function(...) times out: break
AllWaitTimeout ==
    /\ prog = "extract_all_orders"
    /\ pc = "wait"
    /\ ~MoreRowsThan(seen_count)
    /\ pc' = "done"
    /\ UNCHANGED <<pageVars, prog, fetchVars, findVars, detailVars, raised, mainVars, scanVars, matchVars>>

extract_all_orders ==
    \/ AllParse
    \/ AllClickSeeMore
    \/ AllNoSeeMore
    \/ AllWaitDone
    \/ AllWaitTimeout

(***************************************************************************)
(* get_order_details.py: find_order_index.                                 *)
(***************************************************************************)
\* target_date.strip().lower()
Target(t) == Lower(Strip(t))

\* m and m.group("date").lower() == target
DateMatches(line, target) ==
    LET m == ORDER_LINE_RE(line)
    IN  m.matched /\ Lower(m.date) = target

\* return None  # Exhausted all pages, order not found
NotFoundMinusOne == IntVal(0 - 1)

NotFound == None

\* list.index(x): the first position holding x, counted from 0
ListIndexLast(s, x) == (CHOOSE i \in 1..Len(s) : s[i] = x /\ \A j \in (i + 1)..Len(s) : s[j] # x) - 1

ListIndex(s, x) == (CHOOSE i \in 1..Len(s) : s[i] = x /\ \A j \in 1..(i - 1) : s[j] # x) - 1

\* sum(1 for l in s if ORDER_LINE_RE.match(l))
CountEveryLine(s) == Len(s)

CountOrderLines(s) == Len(SelectSeq(s, IsOrderLine))

\* the for loop of find_order_index over one parse: the index it returns,
\* None when no line matches
ScanForDate(ls, target) ==
    IF \E i \in 1..Len(ls) : DateMatches(ls[i], target)
    THEN LET i == CHOOSE k \in 1..Len(ls) :
                     /\ DateMatches(ls[k], target)
                     /\ \A j \in 1..(k - 1) : ~DateMatches(ls[j], target)
             line == ls[i]
         IN  IntVal(CountOrderLines(SubSeq(ls, 1, ListIndex(ls, line))))
    ELSE None

\* body_text = page.inner_text(...); lines = [...]; for i, line in enumerate(lines): ...
FindParse ==
    /\ prog = "find_order_index"
    /\ pc = "parse"
    /\ lines' = StripAll(Page)
    /\ LET found == ScanForDate(lines', Target(target_date))
       IN  IF found # None
           THEN order_index' = found /\ pc' = "done"
           ELSE order_index' = order_index /\ pc' = "see_more"
    /\ UNCHANGED <<pageVars, prog, fetchVars, target_date, current_count, detailVars,
                 raised, mainVars, scanVars, matchVars>>

\* wait_for returns; current_count = ...; see_more.click()
FindClickSeeMore ==
    /\ prog = "find_order_index"
    /\ pc = "see_more"
    /\ current_count' = CountOrderLines(lines)
    /\ Clicked
    /\ pc' = "wait"
    /\ UNCHANGED <<prog, fetchVars, target_date, lines, order_index, detailVars,
                 raised, mainVars, scanVars, matchVars>>

\* wait_for times out, or click raises: return None
FindNoSeeMore ==
    /\ prog = "find_order_index"
    /\ pc = "see_more"
    /\ order_index' = NotFound
    /\ pc' = "done"
    /\ UNCHANGED <<pageVars, prog, fetchVars, target_date, lines, current_count, detailVars,
                 raised, mainVars, scanVars, matchVars>>

\* page.wait_for_function(...) returns: next iteration
FindWaitDone ==
    /\ prog = "find_order_index"
    /\ pc = "wait"
    /\ MoreRowsThan(current_count)
    /\ pc' = "parse"
    /\ UNCHANGED <<pageVars, prog, fetchVars, findVars, detailVars, raised, mainVars, scanVars, matchVars>>

\* page.wait_for_function(...) times out: return None
FindWaitTimeout ==
    /\ prog = "find_order_index"
    /\ pc = "wait"
    /\ ~MoreRowsThan(current_count)
    /\ order_index' = NotFound
    /\ pc' = "done"
    /\ UNCHANGED <<pageVars, prog, fetchVars, target_date, lines, current_count, detailVars,
                 raised, mainVars, scanVars, matchVars>>

find_order_index ==
    \/ FindParse
    \/ FindClickSeeMore
    \/ FindNoSeeMore
    \/ FindWaitDone
    \/ FindWaitTimeout

(***************************************************************************)
(* Specification of the two pagination loops over the order-history page.  *)
(* Both are entered after click_order_history has seen a summary row.      *)
(***************************************************************************)
NoDetail ==
    /\ text = <<>>
    /\ imgs = <<>>
    /\ groups = <<>>
    /\ details = None

\* the function runs on its own, outside main, on a rendered history view
NoMain ==
    /\ mpc = "none"
    /\ history_open = TRUE
    /\ log = <<>>
    /\ outfile = None
    /\ status = "running"

\* the item scan is not being stepped through
NoScan ==
    /\ scan_lines = <<>>
    /\ scan_i = 1
    /\ scan_items = <<>>
    /\ roles = <<>>

\* find_heartland_item is not being called
NoCatalog ==
    /\ catalog = <<>>
    /\ order_item = None
    /\ heartland_item = Unstarted

Init ==
    /\ full \in SeqUpTo(LineUniverse, MaxLines)
    /\ shown \in 1..Len(full)
    /\ OrderDataVisible(Page)
    /\ links \in {<<>>, <<[kind |-> "attr", value |-> "/track/1"]>>}
    /\ loading = FALSE
    /\ clicks = 0
    /\ prog \in {"extract_all_orders", "find_order_index"}
    /\ pc = "parse"
    /\ seen_count = 0
    /\ all_orders = <<>>
    /\ orders = <<>>
    /\ target_date \in IF prog = "find_order_index" THEN TargetUniverse ELSE {""}
    /\ lines = <<>>
    /\ current_count = 0
    /\ order_index = Unstarted
    /\ NoDetail
    /\ raised = "none"
    /\ NoMain
    /\ NoScan
    /\ NoCatalog

Program == extract_all_orders \/ find_order_index

Next == Reveal \/ extract_all_orders \/ find_order_index

Spec == Init /\ [][Next]_vars

\* the running function moves on: its position changes
Proceeds == pc # "done" /\ pc' \in {"parse", "see_more", "wait", "done"} \ {pc}

\* Every wait of the two loops is bounded by a timeout and the code between
\* the waits returns, so the running function always takes its next step.
\* Program is enabled exactly when pc # "done", and the steps that change pc
\* are exactly the steps of Program, so this is WF_vars(Program).
FairSpec == Spec /\ WF_pc(Proceeds)

(***************************************************************************)
(* Properties of the pagination loops.                                     *)
(***************************************************************************)
\* the fields of a summary record that come from its line
RowOf(o) == [date |-> o.date, amount |-> o.amount, items |-> o.items]

Rows(os) == [i \in 1..Len(os) |-> RowOf(os[i])]

\* the summary rows on display, in display order
VisibleRows == Rows(extract_orders_from_text(Page, links))

\* the summary rows of the fully loaded view
AllRows == Rows(extract_orders_from_text(full, links))

\* C1: extract_all_orders appends no summary row twice: at every moment the
\* i-th element of all_orders is the i-th summary row on display, and after
\* each iteration's bookkeeping all_orders holds every row of that parse once.
C1_NoRowTwice ==
    prog = "extract_all_orders" =>
        /\ Len(all_orders) <= Len(VisibleRows)
        /\ \A i \in 1..Len(all_orders) : RowOf(all_orders[i]) = VisibleRows[i]
        /\ Len(all_orders) = Len(orders)
        /\ Len(all_orders) = seen_count

\* extract_all_orders has returned after at least one click that brought a
\* new row, with two or more rows collected
C1_Witness ==
    /\ prog = "extract_all_orders"
    /\ pc = "done"
    /\ clicks >= 1
    /\ shown = Len(full)
    /\ Len(all_orders) >= 2
    /\ Len(all_orders) = Len(AllRows)
    /\ IsOrderLine(Strip(full[Len(full)]))

\* C2: once the page has nothing more to show, either pagination loop
\* eventually terminates (the stated consequence of treating a timeout of the
\* post-click wait as exhaustion).
C2_LoopTerminates == (shown = Len(full)) ~> (pc = "done")

\* the summary line at position i of ls carries the target date
IsTargetLine(ls, i, t) ==
    /\ IsOrderLine(ls[i])
    /\ Lower(ORDER_LINE_RE(ls[i]).date) = Lower(Strip(t))

\* C3: the index find_order_index returns is the number of summary lines
\* before the first summary line whose date equals the target date, compared
\* case-insensitively after trimming; other lines do not count.
C3_IndexAmongSummaryLines ==
    (prog = "find_order_index" /\ pc = "done" /\ order_index # None) =>
        \E i \in 1..Len(lines) :
            /\ IsTargetLine(lines, i, target_date)
            /\ \A j \in 1..(i - 1) : ~IsTargetLine(lines, j, target_date)
            /\ order_index =
                   IntVal(Cardinality({j \in 1..(i - 1) : IsOrderLine(lines[j])}))

\* an index was returned for a date carried by two summary rows, the first of
\* them preceded by a line that is no summary row
C3_Witness ==
    /\ prog = "find_order_index"
    /\ pc = "done"
    /\ order_index \in {IntVal(0), IntVal(1)}
    /\ \E i, j, k \in 1..Len(lines) :
           /\ i < j /\ j < k
           /\ ~IsOrderLine(lines[i])
           /\ IsTargetLine(lines, j, target_date)
           /\ IsTargetLine(lines, k, target_date)
    /\ target_date # Lower(Strip(target_date))

\* C4: find_order_index returns None, and raises nothing, exactly when the
\* text it last parsed holds no summary row with the target date.
C4_NoneIffNoMatch ==
    (prog = "find_order_index" /\ pc = "done") =>
        /\ raised = "none"
        /\ order_index \in {None} \cup {IntVal(k) : k \in 0..MaxLines + 1}
        /\ (order_index = None) <=>
               ~(\E i \in 1..Len(lines) : IsTargetLine(lines, i, target_date))

\* None was returned after a click whose wait timed out or whose control was
\* gone, with summary rows of other dates on display
C4_Witness ==
    /\ prog = "find_order_index"
    /\ pc = "done"
    /\ order_index = None
    /\ clicks >= 1
    /\ CountOrderLines(lines) >= 2

\* position, from 0, of the first of rows with the target date
FirstRowWithDate(rows, t) ==
    (CHOOSE i \in 1..Len(rows) :
        /\ Lower(rows[i].date) = Lower(Strip(t))
        /\ \A j \in 1..(i - 1) : Lower(rows[j].date) # Lower(Strip(t))) - 1

\* C5: whatever number of clicks it took to reach the row, the index returned
\* is the position of the first row with the target date in the fully loaded
\* list of summary rows.
C5_IndexIndependentOfPaging ==
    (prog = "find_order_index" /\ pc = "done" /\ order_index # None) =>
        order_index = IntVal(FirstRowWithDate(AllRows, target_date))

\* an index of 1 or more was returned for a row that only a click revealed
C5_Witness ==
    /\ prog = "find_order_index"
    /\ pc = "done"
    /\ clicks >= 1
    /\ order_index \in {IntVal(1), IntVal(2)}

(***************************************************************************)
(* get_order_details.py: extract_order_details, on the text of the detail  *)
(* page (its raw lines) and the item image elements.                       *)
(***************************************************************************)
\* a dict with no key
EmptyDict == [k \in {} |-> ""]

\* d[key] = value
DictSet(d, key, value) == (key :> value) @@ d

\* where a literal of a pattern starts in t
Occurrences(t, literal) ==
    {p \in 1..(Len(t) - Len(literal) + 1) : SubSeq(t, p, p + Len(literal) - 1) = literal}

\* the same for a lower-case literal matched whatever the case of t
OccurrencesAnyCase(t, literal) ==
    {p \in 1..(Len(t) - Len(literal) + 1) :
        /\ LowerChar(At(t, p)) = At(literal, 1)
        /\ Lower(SubSeq(t, p, p + Len(literal) - 1)) = literal}

Least(S) == CHOOSE x \in S : \A y \in S : x <= y
Greatest(S) == CHOOSE x \in S : \A y \in S : y <= x

\* next((i for i in S), None) over positions counted from 1: the first
\* position in S, 0 when there is none
FirstIndex(S) == IF S = {} THEN 0 ELSE Least(S)

\* the body of find_after from line i on, lab the label in lower case:
\* the first non-empty line after the first line that contains the label
\* and has such a line after it
RECURSIVE FindAfterFrom(_, _, _)
FindAfterFrom(ls, i, lab) ==
    IF i > Len(ls) THEN ""
    ELSE LET after == {j \in (i + 1)..Len(ls) : ls[j] # ""}
         IN  IF OccurrencesAnyCase(ls[i], lab) # {} /\ after # {}
             THEN ls[Least(after)]
             ELSE FindAfterFrom(ls, i + 1, lab)

\* find_after(label): label.lower() in l.lower()
find_after(ls, label) == FindAfterFrom(ls, 1, Lower(label))

\* re.match(r"Items \(\d+\)", l)
IsItemsHeader(l) ==
    LET p == SkipClass(l, 8, Digits)
    IN  StartsWith(l, "Items (") /\ p > 8 /\ At(l, p) = ")"

IsSubtotalLabel(l) == l = "Subtotal"

\* re.match(r"^\$", line)
IsPriceLine(l) == StartsWith(l, "$")

IsItemLineExact(l) == l # "" /\ l # "Order placed"
\* l and not l.startswith("Order placed")
IsItemLine(l) == l # "" /\ ~StartsWith(l, "Order placed")

\* lines[items_start + 1 : items_end] filtered, [] when a marker is missing
ItemLinesUnbounded(ls) ==
    LET items_start == FirstIndex({i \in 1..Len(ls) : IsItemsHeader(ls[i])})
        items_end == FirstIndex({i \in 1..Len(ls) : IsSubtotalLabel(ls[i])})
    IN  IF items_start # 0
        THEN SelectSeq(SubSeq(ls, items_start + 1,
                              IF items_end # 0 THEN items_end - 1 ELSE Len(ls)),
                       IsItemLine)
        ELSE <<>>

ItemLines(ls) ==
    LET items_start == FirstIndex({i \in 1..Len(ls) : IsItemsHeader(ls[i])})
        items_end == FirstIndex({i \in 1..Len(ls) : IsSubtotalLabel(ls[i])})
    IN  IF items_start # 0 /\ items_end # 0
        THEN SelectSeq(SubSeq(ls, items_start + 1, items_end - 1), IsItemLine)
        ELSE <<>>

\* the last position <= i of s whose character is outside class, 0 if none
RECURSIVE SkipClassBack(_, _, _)
SkipClassBack(s, i, class) ==
    IF i >= 1 /\ At(s, i) \in class THEN SkipClassBack(s, i - 1, class) ELSE i

\* re.search(r"\s+x\s*(\d+)$", line, re.IGNORECASE): where the match starts
\* and where its digits start, [matched |-> FALSE] when there is none
QtyMatch(line) ==
    LET d == SkipClassBack(line, Len(line), Digits)
        x == SkipClassBack(line, d, Spaces)
        w == SkipClassBack(line, x - 1, Spaces)
    IN  IF /\ d < Len(line)
           /\ x >= 1
           /\ At(line, x) \in {"x", "X"}
           /\ w < x - 1
        THEN [matched |-> TRUE, start |-> w + 1, digits |-> d + 1]
        ELSE NoMatch

\* int(qty_match.group(1)) if qty_match else 1
DefaultQuantityZero(line) ==
    LET m == QtyMatch(line)
    IN  IF m.matched THEN ParseInt(SubSeq(line, m.digits, Len(line))) ELSE 0

ItemQuantity(line) ==
    LET m == QtyMatch(line)
    IN  IF m.matched THEN ParseInt(SubSeq(line, m.digits, Len(line))) ELSE 1

\* re.sub(r"\s+x\s*\d+$", "", line, flags=re.IGNORECASE).strip()
ItemName(line) ==
    LET m == QtyMatch(line)
    IN  IF m.matched THEN Strip(SubSeq(line, 1, m.start - 1)) ELSE Strip(line)

\* the while loop over item_lines from cursor i (positions from 1), items
\* collected so far in acc
RECURSIVE ScanItems(_, _, _)
ScanItems(item_lines, i, acc) ==
    IF i > Len(item_lines) THEN acc
    ELSE LET line == item_lines[i]
         IN  IF IsPriceLine(line) \/ line = "Variation"
             THEN ScanItems(item_lines, i + 1, acc)
             ELSE LET item0 == [name |-> ItemName(line),
                                quantity |-> ItemQuantity(line)]
                      i1 == i + 1
                      hasMarker == i1 <= Len(item_lines) /\ item_lines[i1] = "Variation"
                      i2 == IF hasMarker THEN i1 + 1 ELSE i1
                      hasValue == /\ hasMarker
                                  /\ i2 <= Len(item_lines)
                                  /\ ~IsPriceLine(item_lines[i2])
                      item1 == IF hasValue
                               THEN DictSet(item0, "variation", item_lines[i2])
                               ELSE item0
                      i3 == IF hasValue THEN i2 + 1 ELSE i2
                      hasPrice == i3 <= Len(item_lines) /\ IsPriceLine(item_lines[i3])
                      item2 == IF hasPrice
                               THEN DictSet(item1, "price", item_lines[i3])
                               ELSE item1
                      i4 == IF hasPrice THEN i3 + 1 ELSE i3
                  IN  ScanItems(item_lines, i4, Append(acc, item2))

\* img_els[i].get_attribute("src", timeout=2000) or "", "" on any exception
\* (no such element, or the read times out); i counted from 0
ImageSrcShifted(img_els, i) ==
    IF i + 2 > Len(img_els) \/ img_els[i + 2].kind # "attr" THEN ""
    ELSE img_els[i + 2].value

ImageSrc(img_els, i) ==
    IF i + 1 > Len(img_els) \/ img_els[i + 1].kind # "attr" THEN ""
    ELSE img_els[i + 1].value

\* for i, item in enumerate(items): item["image_url"] = ...
WithImages(items, img_els) ==
    [i \in 1..Len(items) |-> DictSet(items[i], "image_url", ImageSrc(img_els, i - 1))]

\* re.match(r"^\$[\d,]+\.\d{2}$", l)
IsAmountLine(l) ==
    LET p == SkipClass(l, 2, Digits \cup {","})
    IN  /\ At(l, 1) = "$"
        /\ p > 2
        /\ At(l, p) = "."
        /\ At(l, p + 1) \in Digits
        /\ At(l, p + 2) \in Digits
        /\ Len(l) = p + 2

\* range(i + 1, min(i + 5, len(lines))), positions from 1 (i is the label's)
TotalWindowFive(ls, i) == (i + 1)..(IF i + 5 < Len(ls) THEN i + 5 ELSE Len(ls))

TotalWindow(ls, i) == (i + 1)..(IF i + 4 < Len(ls) THEN i + 4 ELSE Len(ls))

\* the inner loops of the totals scan for one label: details with the key
\* set from the first amount line in the window after the first label line
ScanTotal(d, ls, label, key) ==
    LET i == FirstIndex({k \in 1..Len(ls) : ls[k] = label})
        hits == IF i = 0 THEN {} ELSE {j \in TotalWindow(ls, i) : IsAmountLine(ls[j])}
    IN  IF hits = {} THEN d
        ELSE DictSet(d, key, ls[CHOOSE j \in hits : \A k \in hits : j <= k])

\* for label, key in [("Subtotal", "subtotal"), ...]
ScanTotals(d, ls) ==
    ScanTotal(ScanTotal(ScanTotal(ScanTotal(d,
        ls, "Subtotal", "subtotal"),
        ls, "Shipping", "shipping"),
        ls, "Taxes", "taxes"),
        ls, "Order total", "order_total")

Newline == "\n"

\* \s and \w of the header patterns
Whitespace == Spaces \cup {Newline}
WordChars == Letters \cup Digits \cup {"_"}

\* the text inner_text returns: the rendered lines joined by line breaks
RECURSIVE JoinLines(_)
JoinLines(raw) ==
    IF raw = <<>> THEN ""
    ELSE IF Len(raw) = 1 THEN raw[1]
    ELSE raw[1] \o Newline \o JoinLines(Tail(raw))

\* the first position >= i of s whose character is in class, Len(s) + 1 if none
RECURSIVE SkipUntil(_, _, _)
SkipUntil(s, i, class) ==
    IF i > Len(s) \/ At(s, i) \in class THEN i ELSE SkipUntil(s, i + 1, class)

\* re.search(r"Order number:\s*#(\w+)", text): group 1 of the leftmost match
OrderNumberRe(t) ==
    LET lit == "Order number:"
        Hash(p) == SkipClass(t, p + Len(lit), Whitespace)
        End(p) == SkipClass(t, Hash(p) + 1, WordChars)
        hits == {p \in Occurrences(t, lit) : At(t, Hash(p)) = "#" /\ End(p) > Hash(p) + 1}
    IN  IF hits = {} THEN NoMatch
        ELSE LET p == Least(hits)
             IN  [matched |-> TRUE, group |-> SubSeq(t, Hash(p) + 1, End(p) - 1)]

\* re.search(r"thank you for your order,\s*(.+)\.", text, re.IGNORECASE):
\* \s* and .+ are greedy, . stops at a line break
CustomerRe(t) ==
    LET lit == "thank you for your order,"
        Dots(q) == {r \in (q + 1)..(SkipUntil(t, q, {Newline}) - 1) : At(t, r) = "."}
        Starts(p) == {q \in (p + Len(lit))..SkipClass(t, p + Len(lit), Whitespace) :
                         Dots(q) # {}}
        hits == {p \in OccurrencesAnyCase(t, lit) : Starts(p) # {}}
    IN  IF hits = {} THEN NoMatch
        ELSE LET q == Greatest(Starts(Least(hits)))
             IN  [matched |-> TRUE, group |-> SubSeq(t, q, Greatest(Dots(q)) - 1)]

\* re.search(r"Order placed at\s+(.+)", text)
OrderDateRe(t) ==
    LET lit == "Order placed at"
        Starts(p) == {q \in (p + Len(lit) + 1)..SkipClass(t, p + Len(lit), Whitespace) :
                         SkipUntil(t, q, {Newline}) > q}
        hits == {p \in Occurrences(t, lit) : Starts(p) # {}}
    IN  IF hits = {} THEN NoMatch
        ELSE LET q == Greatest(Starts(Least(hits)))
             IN  [matched |-> TRUE,
                  group |-> SubSeq(t, q, SkipUntil(t, q, {Newline}) - 1)]

\* re.search(r"Sent to\s+(\S+)", text)
EmailRe(t) ==
    LET lit == "Sent to"
        Word(p) == SkipClass(t, p + Len(lit), Whitespace)
        hits == {p \in Occurrences(t, lit) : Word(p) > p + Len(lit) /\ Word(p) <= Len(t)}
    IN  IF hits = {} THEN NoMatch
        ELSE LET q == Word(Least(hits))
             IN  [matched |-> TRUE,
                  group |-> SubSeq(t, q, SkipUntil(t, q, Whitespace) - 1)]

\* if m: details[key] = m.group(1)
SetIfMatched(d, key, m) == IF m.matched THEN DictSet(d, key, m.group) ELSE d

\* if m: details[key] = m.group(1).strip()
SetStrippedIfMatched(d, key, m) ==
    IF m.matched THEN DictSet(d, key, Strip(m.group)) ELSE d

DetailUrl == "https://www.gofigdisplays.com/order/1"

\* details after the header fields: url, then each field whose pattern is
\* found in the text, shipping_address in every case
HeaderFields(raw, ls) ==
    LET t == JoinLines(raw)
        d0 == DictSet(EmptyDict, "url", DetailUrl)
        d1 == SetIfMatched(d0, "order_number", OrderNumberRe(t))
        d2 == SetStrippedIfMatched(d1, "customer", CustomerRe(t))
        d3 == SetStrippedIfMatched(d2, "order_date", OrderDateRe(t))
        d4 == DictSet(d3, "shipping_address", find_after(ls, "Delivering to"))
    IN  SetIfMatched(d4, "email", EmailRe(t))

\* the record extract_order_details returns for the page text raw and the
\* image elements img_els
OrderDetails(raw, img_els) ==
    LET ls == StripAll(raw)
        items == WithImages(ScanItems(ItemLines(ls), 1, <<>>), img_els)
    IN  ScanTotals(DictSet(HeaderFields(raw, ls), "items", items), ls)

(***************************************************************************)
(* Detail pages the parser is run on.                                      *)
(***************************************************************************)
\* an item group as the detail page renders it: qty 0 and the empty
\* variation stand for "not rendered"
GroupUniverse ==
    [name : {"Widget", "Gadget"},
     qty : {0, 10},
     variation : {"", "Red"},
     priced : BOOLEAN]

PriceOf(name) == IF name = "Widget" THEN "$5.00" ELSE "$3.00"

RenderGroup(g) ==
    <<"  " \o g.name \o (IF g.qty > 0 THEN " x" \o ToString(g.qty) ELSE "")>>
    \o (IF g.variation # "" THEN <<"Variation", g.variation>> ELSE <<>>)
    \o (IF g.priced THEN <<PriceOf(g.name)>> ELSE <<>>)

RECURSIVE RenderGroups(_)
RenderGroups(gs) ==
    IF gs = <<>> THEN <<>> ELSE RenderGroup(Head(gs)) \o RenderGroups(Tail(gs))

PageTop ==
    <<"Order number: #A1B2C3", "Thank you for your order, Sam Lee.",
      "Sent to", " sam@shop.example", "Delivering to", "", " 12 Main St ">>

PageTotals ==
    <<"Subtotal", "$53.00", "Shipping", "", "$2.00", "Taxes", "$4.00",
      "Order total", "$55", "$1,203.50">>

\* a whole confirmation page around the rendered groups
RenderPage(gs) ==
    PageTop \o <<"Items (" \o ToString(Len(gs)) \o ")">> \o RenderGroups(gs) \o PageTotals

\* what precedes the item block of a page that may lack a marker
BlockTop == <<"Order number:", "#77", "Delivering to", "12 Main St", "Shipping", "$2.00">>

BlockUniverse ==
    {"Widget x10", "$5.00", "Variation", "Red", "", "Order placed at 1/19/2026"}

TotalLabels == {"Subtotal", "Shipping", "Taxes", "Order total"}

TailUniverse == {"$5.00", "$1,203.50", "", "Taxes"}

ImageStrips ==
    { <<[kind |-> "attr", value |-> "/img/a.png"], [kind |-> "none"],
        [kind |-> "attr", value |-> "/img/c.png"], [kind |-> "timeout"]>>,
      <<[kind |-> "timeout"], [kind |-> "attr", value |-> "/img/b.png"],
        [kind |-> "attr", value |-> "/img/c.png"], [kind |-> "none"]>> }

\* the image elements found: the first n of a strip
ImageLists ==
    {SubSeq(strip, 1, n) : strip \in ImageStrips, n \in 0..MaxImgs}

NoPaging ==
    /\ full = <<>>
    /\ shown = 0
    /\ links = <<>>
    /\ loading = FALSE
    /\ clicks = 0
    /\ seen_count = 0
    /\ all_orders = <<>>
    /\ orders = <<>>
    /\ target_date = ""
    /\ lines = <<>>
    /\ current_count = 0
    /\ order_index = Unstarted

\* extract_order_details is entered with a page and nothing parsed yet
DetailStart ==
    /\ NoPaging
    /\ prog = "extract_order_details"
    /\ pc = "start"
    /\ details = None
    /\ raised = "none"
    /\ NoMain
    /\ NoScan
    /\ NoCatalog

\* whole pages rendered from item groups, and pages whose item block is
\* arbitrary and may lack a marker
DetailInit ==
    /\ DetailStart
    /\ \/ /\ groups \in SeqUpTo(GroupUniverse, MaxGroups)
          /\ text = RenderPage(groups)
          /\ imgs \in {<<>>, <<[kind |-> "attr", value |-> "/img/a.png"]>>}
       \/ /\ groups = <<>>
          /\ \E head \in {<<>>, <<"Items (2)">>},
                block \in SeqUpTo(BlockUniverse, MaxBlock),
                tail \in {<<>>, <<"Subtotal", "$8.00">>} :
                text = BlockTop \o head \o block \o tail
          /\ imgs \in ImageLists

\* pages that are one total label and the lines after it
TotalsInit ==
    /\ DetailStart
    /\ groups = <<>>
    /\ \E label \in TotalLabels, tail \in SeqUpTo(TailUniverse, MaxTail) :
          text = <<label>> \o tail
    /\ imgs = <<>>

\* text = page.inner_text("body") ... return details
ExtractOrderDetails ==
    /\ prog = "extract_order_details"
    /\ pc = "start"
    /\ details' = OrderDetails(text, imgs)
    /\ pc' = "done"
    /\ UNCHANGED <<pageVars, prog, fetchVars, findVars, text, imgs, groups,
                 raised, mainVars, scanVars, matchVars>>

DetailNext == ExtractOrderDetails

SpecDetail == DetailInit /\ [][DetailNext]_vars

SpecTotals == TotalsInit /\ [][DetailNext]_vars

(***************************************************************************)
(* One parse of the order-history page.                                    *)
(***************************************************************************)
SummaryInit ==
    /\ full \in SeqUpTo(LineUniverse, MaxLines)
    /\ shown = Len(full)
    /\ links \in SeqUpTo(AnchorUniverse, MaxLinks)
    /\ loading = FALSE
    /\ clicks = 0
    /\ prog = "extract_orders_from_text"
    /\ pc = "start"
    /\ seen_count = 0
    /\ all_orders = <<>>
    /\ orders = <<>>
    /\ target_date = ""
    /\ lines = <<>>
    /\ current_count = 0
    /\ order_index = Unstarted
    /\ NoDetail
    /\ raised = "none"
    /\ NoMain
    /\ NoScan
    /\ NoCatalog

\* body_text = page.inner_text("body") ... return orders
ExtractOrdersFromText ==
    /\ prog = "extract_orders_from_text"
    /\ pc = "start"
    /\ orders' = extract_orders_from_text(Page, links)
    /\ pc' = "done"
    /\ UNCHANGED <<pageVars, prog, seen_count, all_orders, findVars, detailVars,
                 raised, mainVars, scanVars, matchVars>>

SummaryNext == ExtractOrdersFromText

SpecSummary == SummaryInit /\ [][SummaryNext]_vars

(***************************************************************************)
(* Properties of the two parsers.                                          *)
(***************************************************************************)
\* C6: for a page whose item block is a sequence of well-formed groups, the
\* scan emits one item per group, in order: the name without its quantity
\* suffix, the quantity of the suffix or 1 without one, the variation only
\* when a value line is rendered, and the group's own price line as price.
C6_ItemBlockRoundTrip ==
    (prog = "extract_order_details" /\ pc = "done" /\ text = RenderPage(groups)) =>
        /\ Len(details.items) = Len(groups)
        /\ \A i \in 1..Len(groups) :
              LET it == details.items[i]
                  g == groups[i]
              IN  /\ it.name = g.name
                  /\ it.quantity = IF g.qty > 0 THEN g.qty ELSE 1
                  /\ ("variation" \in DOMAIN it) <=> (g.variation # "")
                  /\ g.variation # "" => it.variation = g.variation
                  /\ ("price" \in DOMAIN it) <=> g.priced
                  /\ g.priced => it.price = PriceOf(g.name)

\* the block Widget x10, $5.00, Gadget, Variation, Red, $3.00 has been parsed
C6_Witness ==
    /\ prog = "extract_order_details"
    /\ pc = "done"
    /\ groups = <<[name |-> "Widget", qty |-> 10, variation |-> "", priced |-> TRUE],
                  [name |-> "Gadget", qty |-> 0, variation |-> "Red", priced |-> TRUE]>>
    /\ text = RenderPage(groups)
    /\ Len(details.items) = 2
    /\ details.items[1].quantity = 10
    /\ details.items[1].price = "$5.00"
    /\ details.items[2].quantity = 1
    /\ details.items[2].variation = "Red"
    /\ details.items[2].price = "$3.00"

HasItemsHeader == \E i \in 1..Len(text) : IsItemsHeader(Strip(text[i]))

HasSubtotalLine == \E i \in 1..Len(text) : Strip(text[i]) = "Subtotal"

BeginsWithBlockTop ==
    Len(text) >= Len(BlockTop) /\ SubSeq(text, 1, Len(BlockTop)) = BlockTop

\* C7: when the detail text has no 'Items (<N>)' line or no line equal to
\* 'Subtotal', the record returned has an empty items sequence, nothing is
\* raised, and the header fields and totals of the page are in the record.
C7_MissingBoundaryEmptyItems ==
    (prog = "extract_order_details" /\ pc = "done"
        /\ ~(HasItemsHeader /\ HasSubtotalLine)) =>
        /\ details.items = <<>>
        /\ raised = "none"
        /\ details.url = DetailUrl
        /\ "shipping_address" \in DOMAIN details
        /\ BeginsWithBlockTop =>
              /\ "order_number" \in DOMAIN details /\ details.order_number = "77"
              /\ details.shipping_address = "12 Main St"
              /\ "shipping" \in DOMAIN details /\ details.shipping = "$2.00"
              /\ HasSubtotalLine =>
                    "subtotal" \in DOMAIN details /\ details.subtotal = "$8.00"

\* a page with the 'Items (2)' marker and an item line but no 'Subtotal'
\* line has been parsed
C7_Witness ==
    /\ prog = "extract_order_details"
    /\ pc = "done"
    /\ BeginsWithBlockTop
    /\ HasItemsHeader
    /\ ~HasSubtotalLine
    /\ \E i \in 1..Len(text) : text[i] = "Widget x10"
    /\ details.items = <<>>
    /\ details.shipping = "$2.00"

TotalFields ==
    { [label |-> "Subtotal", key |-> "subtotal"],
      [label |-> "Shipping", key |-> "shipping"],
      [label |-> "Taxes", key |-> "taxes"],
      [label |-> "Order total", key |-> "order_total"] }

\* C8: for each total label, the field is the first amount line among the
\* at most 4 lines that follow the first line equal to the label; it is
\* unset when there is no such label line or no amount line in that window.
C8_FirstAmountInWindow ==
    (prog = "extract_order_details" /\ pc = "done") =>
        \A f \in TotalFields :
            LET ls == StripAll(text)
                at == {i \in 1..Len(ls) : ls[i] = f.label}
                amounts == {j \in 1..Len(ls) :
                               /\ j > Least(at)
                               /\ j <= Least(at) + 4
                               /\ IsAmountLine(ls[j])}
            IN  IF at = {} \/ amounts = {}
                THEN f.key \notin DOMAIN details
                ELSE f.key \in DOMAIN details /\ details[f.key] = ls[Least(amounts)]

\* a label followed by a blank line and two amounts has been parsed: the
\* first amount is stored
C8_Witness ==
    /\ prog = "extract_order_details"
    /\ pc = "done"
    /\ text = <<"Shipping", "", "$5.00", "$1,203.50">>
    /\ details.shipping = "$5.00"

\* the lines of raw that match the summary pattern, stripped, in order
RECURSIVE SummaryLines(_)
SummaryLines(raw) ==
    IF raw = <<>> THEN <<>>
    ELSE (IF IsOrderLine(Strip(Head(raw))) THEN <<Strip(Head(raw))>> ELSE <<>>)
         \o SummaryLines(Tail(raw))

\* C9: extract_orders_from_text returns one record per line that matches
\* the summary pattern, in page order, and the i-th record carries the link
\* of the i-th 'Track order' anchor, the empty link when there is no i-th
\* anchor.
C9_OneRecordPerSummaryLine ==
    (prog = "extract_orders_from_text" /\ pc = "done") =>
        LET ml == SummaryLines(Page)
        IN  /\ Len(orders) = Len(ml)
            /\ \A i \in 1..Len(ml) :
                  /\ RowOf(orders[i]) =
                        [date |-> ORDER_LINE_RE(ml[i]).date,
                         amount |-> ParseAmount(ORDER_LINE_RE(ml[i]).amount),
                         items |-> ParseInt(ORDER_LINE_RE(ml[i]).items)]
                  /\ orders[i].track_url =
                        IF i <= Len(links) THEN LinkOutcome(links[i]) ELSE ""

\* two summary rows around a line that is no summary row, one anchor: the
\* first record has its link, the second the empty link
C9_Witness ==
    /\ prog = "extract_orders_from_text"
    /\ pc = "done"
    /\ Len(full) = 3
    /\ IsOrderLine(Strip(full[1]))
    /\ ~IsOrderLine(Strip(full[2]))
    /\ IsOrderLine(Strip(full[3]))
    /\ links = <<[kind |-> "attr", value |-> "/track/1"]>>
    /\ Len(orders) = 2
    /\ orders[1].track_url = BASE_URL \o "/track/1"
    /\ orders[2].track_url = ""

\* C10: the i-th item has the source of the i-th image element, the empty
\* string when that element has no readable source or when there is no
\* i-th image element.
C10_ImagesByPosition ==
    (prog = "extract_order_details" /\ pc = "done") =>
        \A i \in 1..Len(details.items) :
            details.items[i].image_url =
                IF i <= Len(imgs) /\ imgs[i].kind = "attr" THEN imgs[i].value ELSE ""

\* two items and one image element: the first item keeps its image, the
\* second has the empty image_url
C10_Witness ==
    /\ prog = "extract_order_details"
    /\ pc = "done"
    /\ Len(details.items) = 2
    /\ imgs = <<[kind |-> "attr", value |-> "/img/a.png"]>>
    /\ details.items[1].image_url = "/img/a.png"
    /\ details.items[2].image_url = ""

(***************************************************************************)
(* get_order_details.py: click_track_order.                                *)
(***************************************************************************)
\* something the run did to the browser or the terminal; n is the position
\* of the element it was done to, 0 when there is none
Event(ev, n) == [ev |-> ev, n |-> n]

\* RuntimeError(f"Found {len(track_links)} 'Track order' links but needed
\* index {order_index}.")
TrackOrderError(n, index) ==
    "RuntimeError: Found " \o ToString(n) \o " 'Track order' links but needed index "
    \o ToString(index) \o "."

\* order_index >= len(track_links)
HasNoLinkStrict(index, n) == index > n

HasNoLink(index, n) == index >= n

\* track_links = page.locator(...).all(); if ...: raise RuntimeError(...);
\* track_links[order_index].click()
ClickTrackOrder ==
    /\ prog = "click_track_order"
    /\ pc = "start"
    /\ IF HasNoLink(order_index.value, Len(links))
       THEN /\ raised' = TrackOrderError(Len(links), order_index.value)
            /\ log' = log
       ELSE /\ raised' = raised
            /\ log' = Append(log, Event("click_track_order", order_index.value))
    /\ pc' = "done"
    /\ UNCHANGED <<pageVars, prog, fetchVars, findVars, detailVars,
                   mpc, history_open, outfile, status, scanVars, matchVars>>

\* click_track_order called with any index on a page with any number of
\* 'Track order' elements
TrackInit ==
    /\ full = <<>>
    /\ shown = 0
    /\ links \in SeqUpTo(AnchorUniverse, MaxLinks)
    /\ loading = FALSE
    /\ clicks = 0
    /\ prog = "click_track_order"
    /\ pc = "start"
    /\ seen_count = 0
    /\ all_orders = <<>>
    /\ orders = <<>>
    /\ target_date = ""
    /\ lines = <<>>
    /\ current_count = 0
    /\ order_index \in {IntVal(k) : k \in 0..MaxLines}
    /\ NoDetail
    /\ raised = "none"
    /\ NoMain
    /\ NoScan
    /\ NoCatalog

TrackNext == ClickTrackOrder

SpecTrack == TrackInit /\ [][TrackNext]_vars

\* the positions of the 'Track order' elements the run has clicked
TrackClicks == SelectSeq(log, LAMBDA e : e.ev = "click_track_order")

\* C11: click_track_order raises an error that names the number of links
\* found and the index asked for whenever the index is not below the number
\* of 'Track order' elements, and then clicks nothing; otherwise it raises
\* nothing and clicks the element at that index, and only that one.
C11_ClickOrRaise ==
    (prog = "click_track_order" /\ pc = "done") =>
        IF order_index.value >= Len(links)
        THEN /\ raised = "RuntimeError: Found " \o ToString(Len(links))
                         \o " 'Track order' links but needed index "
                         \o ToString(order_index.value) \o "."
             /\ TrackClicks = <<>>
        ELSE /\ raised = "none"
             /\ TrackClicks = <<[ev |-> "click_track_order", n |-> order_index.value]>>

\* index 2 was asked for on a page with exactly 2 'Track order' elements:
\* the error is raised and nothing was clicked
C11_Witness ==
    /\ prog = "click_track_order"
    /\ pc = "done"
    /\ order_index = IntVal(2)
    /\ Len(links) = 2
    /\ raised = "RuntimeError: Found 2 'Track order' links but needed index 2."
    /\ log = <<>>

(***************************************************************************)
(* Detail pages that show the order number line and any of the other       *)
(* header lines.                                                           *)
(***************************************************************************)
HeaderFirstLines == {"Order number: #A1B2C3", "Order number: pending"}

HeaderUniverse ==
    {"Thank you for your order, Sam Lee.", "Order placed at 1/19/2026",
     "Sent to sam@shop.example", "Delivering to", " 12 Main St", ""}

HeaderInit ==
    /\ DetailStart
    /\ groups = <<>>
    /\ \E first \in HeaderFirstLines, rest \in SeqUpTo(HeaderUniverse, MaxHeader) :
          text = <<first>> \o rest
    /\ imgs = <<>>

SpecHeader == HeaderInit /\ [][DetailNext]_vars

\* the detail text has a line containing 'Delivering to' with a non-empty
\* line after it
ShippingAddressFound ==
    LET ls == StripAll(text)
    IN  \E i \in 1..Len(ls), j \in 1..Len(ls) :
            /\ i < j
            /\ OccurrencesAnyCase(ls[i], "delivering to") # {}
            /\ ls[j] # ""

\* C12: a header field whose pattern is not found in the detail text is
\* absent from the record extract_order_details returns, and nothing is
\* raised for it.
C12_AbsentFieldsUnset ==
    (prog = "extract_order_details" /\ pc = "done") =>
        /\ raised = "none"
        /\ ~OrderNumberRe(JoinLines(text)).matched => "order_number" \notin DOMAIN details
        /\ ~CustomerRe(JoinLines(text)).matched => "customer" \notin DOMAIN details
        /\ ~OrderDateRe(JoinLines(text)).matched => "order_date" \notin DOMAIN details
        /\ ~EmailRe(JoinLines(text)).matched => "email" \notin DOMAIN details
        /\ ~ShippingAddressFound => "shipping_address" \notin DOMAIN details

(***************************************************************************)
(* get_order_details.py: main, with wait_for_login, click_order_history    *)
(* and the waits of extract_order_details.                                 *)
(***************************************************************************)
\* what a wait that is wrapped in `except PlaywrightTimeout: pass` leaves
\* behind when it times out
OptionalTimeoutFatal == "PlaywrightTimeout"

OptionalTimeout == "none"

\* what a wait outside any try block leaves behind when it times out
MandatoryTimeoutSwallowed == "none"

MandatoryTimeout == "PlaywrightTimeout"

\* where control is after a step: at next, or leaving by the exception
AfterStep(exc, next) == IF exc = "none" THEN next ELSE "raised"

\* target_date.replace(' ', '_')
RECURSIVE ReplaceSpaces(_)
ReplaceSpaces(s) ==
    IF s = "" THEN ""
    ELSE (IF At(s, 1) = " " THEN "_" ELSE At(s, 1)) \o ReplaceSpaces(SubSeq(s, 2, Len(s)))

\* output_file = f"order_{target_date.replace(' ', '_')}.json"
OutputFile(date) == "order_" \o ReplaceSpaces(date) \o ".json"

\* /Order number:/.test(document.body.innerText)
OrderNumberVisible(raw) == Occurrences(JoinLines(raw), "Order number:") # {}

\* the status sys.exit(1) ends the process with
NotFoundStatusOk == "exit_0"

NotFoundStatus == "exit_1"

mainFrame == <<pageVars, fetchVars, findVars, detailVars, outfile, status, scanVars, matchVars>>

\* wait_for_login: page.goto(...); the first wait_for_url returns or times out
LoginRedirectWait ==
    /\ mpc = "wait_redirect"
    /\ raised = "none"
    /\ \E exc \in {"none", OptionalTimeout} :
          /\ raised' = exc
          /\ mpc' = AfterStep(exc, "wait_login")
    /\ log' = Append(log, Event("goto", 0))
    /\ UNCHANGED <<mainFrame, prog, pc, history_open>>

\* wait_for_login: page.wait_for_url("**/s/customer-accounts**") returns
LoginWaitDone ==
    /\ mpc = "wait_login"
    /\ raised = "none"
    /\ mpc' = "history"
    /\ log' = Append(log, Event("login_detected", 0))
    /\ UNCHANGED <<mainFrame, prog, pc, history_open, raised>>

\* wait_for_login: page.wait_for_url(...) times out after LOGIN_TIMEOUT
LoginWaitTimeout ==
    /\ mpc = "wait_login"
    /\ raised = "none"
    /\ raised' = MandatoryTimeout
    /\ mpc' = AfterStep(raised', "history")
    /\ log' = Append(log, Event("timeout_login", 0))
    /\ UNCHANGED <<mainFrame, prog, pc, history_open>>

\* click_order_history: the 'Order history' button shows up and is clicked
HistoryButtonClick ==
    /\ mpc = "history"
    /\ raised = "none"
    /\ history_open' = TRUE
    /\ mpc' = "all_orders"
    /\ log' = Append(log, Event("click_order_history", 0))
    /\ UNCHANGED <<mainFrame, prog, pc, raised>>

\* click_order_history: wait_for_selector times out, except: pass
HistoryButtonTimeout ==
    /\ mpc = "history"
    /\ raised = "none"
    /\ raised' = OptionalTimeout
    /\ mpc' = AfterStep(raised', "all_orders")
    /\ log' = Append(log, Event("timeout_order_history", 0))
    /\ UNCHANGED <<mainFrame, prog, pc, history_open>>

\* click_order_history: the 'All orders' control shows up and is clicked
AllOrdersClick ==
    /\ mpc = "all_orders"
    /\ raised = "none"
    /\ mpc' = "order_data"
    /\ log' = Append(log, Event("click_all_orders", 0))
    /\ UNCHANGED <<mainFrame, prog, pc, history_open, raised>>

\* click_order_history: wait_for_selector(ALL_ORDERS_SELECTOR) times out
AllOrdersTimeout ==
    /\ mpc = "all_orders"
    /\ raised = "none"
    /\ raised' = OptionalTimeout
    /\ mpc' = AfterStep(raised', "order_data")
    /\ log' = Append(log, Event("timeout_all_orders", 0))
    /\ UNCHANGED <<mainFrame, prog, pc, history_open>>

\* what the body shows of the order history
HistoryShows == history_open /\ OrderDataVisible(Page)

\* click_order_history: page.wait_for_function(...) returns; main calls
\* find_order_index(page, target_date)
OrderDataWaitDone ==
    /\ mpc = "order_data"
    /\ raised = "none"
    /\ HistoryShows
    /\ mpc' = "find"
    /\ prog' = "find_order_index"
    /\ pc' = "parse"
    /\ log' = Append(log, Event("order_data_visible", 0))
    /\ UNCHANGED <<mainFrame, history_open, raised>>

\* click_order_history: page.wait_for_function(...) times out
OrderDataWaitTimeout ==
    /\ mpc = "order_data"
    /\ raised = "none"
    /\ ~HistoryShows
    /\ raised' = MandatoryTimeout
    /\ mpc' = AfterStep(raised', "find")
    /\ prog' = IF raised' = "none" THEN "find_order_index" ELSE prog
    /\ pc' = IF raised' = "none" THEN "parse" ELSE pc
    /\ log' = Append(log, Event("timeout_order_data", 0))
    /\ UNCHANGED <<mainFrame, history_open>>

\* the summary rows main prints when the order is not found
AvailableRows == SelectSeq(StripAll(Page), IsOrderLine)

\* main: order_index is None: print the available orders, sys.exit(1);
\* finally: browser.close()
MainNotFound ==
    /\ mpc = "find"
    /\ prog = "find_order_index"
    /\ pc = "done"
    /\ raised = "none"
    /\ order_index = None
    /\ log' = log \o <<Event("list_rows", Len(AvailableRows)), Event("browser_close", 0)>>
    /\ status' = NotFoundStatus
    /\ mpc' = "exited"
    /\ prog' = "main"
    /\ UNCHANGED <<pageVars, fetchVars, findVars, detailVars, outfile, scanVars, matchVars,
                   pc, history_open, raised>>

\* main: order_index is an index: click_track_order(page, order_index)
\* inside page.context.expect_page(timeout=10000)
MainCallClickTrackOrder ==
    /\ mpc = "find"
    /\ prog = "find_order_index"
    /\ pc = "done"
    /\ raised = "none"
    /\ order_index # None
    /\ mpc' = "track"
    /\ prog' = "click_track_order"
    /\ pc' = "start"
    /\ UNCHANGED <<mainFrame, history_open, log, raised>>

\* main: the click opened a new tab; extract_order_details(new_page, "")
MainNewPage ==
    /\ mpc = "track"
    /\ prog = "click_track_order"
    /\ pc = "done"
    /\ raised = "none"
    /\ mpc' = "extract"
    /\ prog' = "extract_order_details"
    /\ pc' = "load"
    /\ log' = Append(log, Event("new_page", 0))
    /\ UNCHANGED <<mainFrame, history_open, raised>>

\* main: no new tab within the 10 s of expect_page
MainNewPageTimeout ==
    /\ mpc = "track"
    /\ prog = "click_track_order"
    /\ pc = "done"
    /\ raised = "none"
    /\ raised' = MandatoryTimeout
    /\ mpc' = AfterStep(raised', "extract")
    /\ prog' = IF raised' = "none" THEN "extract_order_details" ELSE prog
    /\ pc' = IF raised' = "none" THEN "load" ELSE pc
    /\ log' = Append(log, Event("timeout_new_page", 0))
    /\ UNCHANGED <<mainFrame, history_open>>

detailFrame == <<pageVars, prog, fetchVars, findVars, detailVars, mpc, history_open,
                 outfile, status, scanVars, matchVars>>

\* extract_order_details: page.wait_for_load_state(...) returns
DetailLoadDone ==
    /\ prog = "extract_order_details"
    /\ pc = "load"
    /\ pc' = "number"
    /\ UNCHANGED <<detailFrame, log, raised>>

\* extract_order_details: page.wait_for_load_state(...) times out
DetailLoadTimeout ==
    /\ prog = "extract_order_details"
    /\ pc = "load"
    /\ raised' = MandatoryTimeout
    /\ pc' = AfterStep(raised', "number")
    /\ log' = Append(log, Event("timeout_load", 0))
    /\ UNCHANGED detailFrame

\* extract_order_details: the wait for 'Order number:' returns
DetailNumberDone ==
    /\ prog = "extract_order_details"
    /\ pc = "number"
    /\ OrderNumberVisible(text)
    /\ pc' = "start"
    /\ UNCHANGED <<detailFrame, log, raised>>

\* extract_order_details: the wait for 'Order number:' times out
DetailNumberTimeout ==
    /\ prog = "extract_order_details"
    /\ pc = "number"
    /\ ~OrderNumberVisible(text)
    /\ raised' = MandatoryTimeout
    /\ pc' = AfterStep(raised', "start")
    /\ log' = Append(log, Event("timeout_order_number", 0))
    /\ UNCHANGED detailFrame

\* control reaches `with open(output_file, "w")`: extract_order_details
\* has returned
ReachesWrite == mpc = "extract" /\ pc = "done" /\ raised = "none"

\* main: json.dump(details, f, indent=2); finally: browser.close()
MainWrite ==
    /\ ReachesWrite
    /\ prog = "extract_order_details"
    /\ outfile' = [name |-> OutputFile(target_date), content |-> details]
    /\ log' = log \o <<Event("write_file", 0), Event("browser_close", 0)>>
    /\ status' = "exit_0"
    /\ mpc' = "exited"
    /\ prog' = "main"
    /\ UNCHANGED <<pageVars, fetchVars, findVars, detailVars, scanVars, matchVars,
                   pc, history_open, raised>>

\* an exception leaves main: finally: browser.close(), traceback
MainAbort ==
    /\ mpc \notin {"none", "exited"}
    /\ raised # "none"
    /\ ~ReachesWrite
    /\ log' = Append(log, Event("browser_close", 0))
    /\ status' = "error"
    /\ mpc' = "exited"
    /\ prog' = "main"
    /\ UNCHANGED <<pageVars, fetchVars, findVars, detailVars, outfile, scanVars, matchVars,
                   pc, history_open, raised>>

\* order-history views and detail pages the site may serve
MainHistories ==
    { <<>>,
      <<"Feb 2 - $5.00 - 1 Item", "Track order", "  MAR 3 - $1,234.50 - 12 Items ">>,
      <<"Refund Feb 2 - $5.00", "Feb 2 - $5.00 - 1 Item", "Feb 2-$7.00-2 Items">> }

TrackStrip ==
    <<[kind |-> "attr", value |-> "/track/1"],
      [kind |-> "attr", value |-> "https://t.example/2"],
      [kind |-> "none"],
      [kind |-> "timeout"]>>

MainDetailPages ==
    { RenderPage(<<[name |-> "Widget", qty |-> 10, variation |-> "", priced |-> TRUE]>>),
      BlockTop,
      <<"Loading", "">> }

\* main after the argument check, the browser launched
MainInit ==
    /\ full \in MainHistories
    /\ shown \in 0..Len(full)
    /\ links \in {SubSeq(TrackStrip, 1, n) : n \in 0..MaxLinks}
    /\ loading = FALSE
    /\ clicks = 0
    /\ prog = "main"
    /\ pc = "none"
    /\ seen_count = 0
    /\ all_orders = <<>>
    /\ orders = <<>>
    /\ target_date \in TargetUniverse
    /\ lines = <<>>
    /\ current_count = 0
    /\ order_index = Unstarted
    /\ text \in MainDetailPages
    /\ imgs = <<>>
    /\ groups = <<>>
    /\ details = None
    /\ raised = "none"
    /\ mpc = "wait_redirect"
    /\ history_open \in BOOLEAN
    /\ log = <<>>
    /\ outfile = None
    /\ status = "running"
    /\ NoScan
    /\ NoCatalog

wait_for_login == LoginRedirectWait \/ LoginWaitDone \/ LoginWaitTimeout

click_order_history ==
    \/ HistoryButtonClick
    \/ HistoryButtonTimeout
    \/ AllOrdersClick
    \/ AllOrdersTimeout
    \/ OrderDataWaitDone
    \/ OrderDataWaitTimeout

extract_order_details ==
    \/ DetailLoadDone
    \/ DetailLoadTimeout
    \/ DetailNumberDone
    \/ DetailNumberTimeout
    \/ ExtractOrderDetails

main ==
    \/ wait_for_login
    \/ click_order_history
    \/ find_order_index
    \/ MainNotFound
    \/ MainCallClickTrackOrder
    \/ ClickTrackOrder
    \/ MainNewPage
    \/ MainNewPageTimeout
    \/ extract_order_details
    \/ MainWrite
    \/ MainAbort

MainNext == Reveal \/ main

SpecMain == MainInit /\ [][MainNext]_vars

(***************************************************************************)
(* Properties of the main flow.                                            *)
(***************************************************************************)
\* the run has done ev
Happened(ev) == \E k \in 1..Len(log) : log[k].ev = ev

MandatoryWaits == {"timeout_login", "timeout_order_data", "timeout_order_number"}

\* C13: once the wait for the login, for the first summary row or for
\* 'Order number:' has timed out, the timeout error is on its way out of
\* main: nothing is done after it but closing the browser, the run ends
\* with an error, extract_order_details returns no record and no order
\* file is written.
C13_MandatoryTimeoutAborts ==
    \A k \in 1..Len(log) :
        log[k].ev \in MandatoryWaits =>
            /\ raised = "PlaywrightTimeout"
            /\ \A j \in (k + 1)..Len(log) : log[j].ev = "browser_close"
            /\ details = None
            /\ outfile = None
            /\ status \in {"running", "error"}
            /\ mpc = "exited" => status = "error"

\* the run reached the detail page, the wait for 'Order number:' timed
\* out there and the run has ended with the error
C13_Witness ==
    /\ mpc = "exited"
    /\ Happened("click_track_order")
    /\ Happened("timeout_order_number")
    /\ status = "error"
    /\ details = None
    /\ outfile = None


\* ---------------------------------------------------------------------
\* create_po.py: matching an order item against the Heartland catalog
\* ---------------------------------------------------------------------

MaxCatalog == 2

\* re.sub(r"\s+", " ", t): every run of whitespace becomes one space
RECURSIVE CollapseSpaces(_)
CollapseSpaces(t) ==
    IF t = "" THEN ""
    ELSE IF At(t, 1) \in Spaces
         THEN " " \o CollapseSpaces(SubSeq(t, SkipClass(t, 1, Spaces), Len(t)))
         ELSE At(t, 1) \o CollapseSpaces(SubSeq(t, 2, Len(t)))

\* normalize(s): re.sub(r"\s+", " ", s.strip().lower())
normalize(s) == CollapseSpaces(Lower(Strip(s)))

\* Python's `sub in s` on strings
IsSubstring(sub, s) ==
    \E k \in 1..(Len(s) - Len(sub) + 1) : SubSeq(s, k, k + Len(sub) - 1) = sub

\* one entry of heartland_items.json
CatalogItem(description, public_id) ==
    ("item.description" :> description) @@ ("item.public_id" :> public_id)

\* order_item.get("variation", "")
ItemVariation(item) ==
    IF "variation" \in DOMAIN item THEN item["variation"] ELSE ""

\* the keys of by_desc, by position in items
Descriptions(items) ==
    [k \in 1..Len(items) |-> normalize(items[k]["item.description"])]

\* by_desc.items() visits each key where it was first inserted
ByDescOrder(items) ==
    LET d == Descriptions(items)
    IN  {k \in 1..Len(items) : \A j \in 1..(k - 1) : d[j] # d[k]}

\* by_desc[key]: a later item with the same key replaced the earlier one
ByDescValue(items, key) ==
    LET d == Descriptions(items)
    IN  items[Greatest({k \in 1..Len(items) : d[k] = key})]

\* the candidates the exact-match loop does not skip: None and "" are falsy
Candidates(item) ==
    LET name == item["name"]
        variation == ItemVariation(item)
        first == IF variation # ""
                 THEN <<normalize(name \o " - " \o variation)>> ELSE <<>>
        second == IF normalize(name) # "" THEN <<normalize(name)>> ELSE <<>>
    IN  first \o second

\* strategies 1 and 2: the first candidate that is a key of by_desc
ExactMatch(items, item) ==
    LET d == Descriptions(items)
        c == Candidates(item)
        hits == {n \in 1..Len(c) : \E k \in 1..Len(items) : d[k] = c[n]}
    IN  IF hits = {} THEN None ELSE ByDescValue(items, c[Least(hits)])

\* strategy 3: the first description holding both name and variation
BothMatch(items, item) ==
    LET d == Descriptions(items)
        norm_name == normalize(item["name"])
        norm_var == normalize(ItemVariation(item))
        hits == {k \in ByDescOrder(items) :
                    IsSubstring(norm_name, d[k]) /\ IsSubstring(norm_var, d[k])}
    IN  IF hits = {} THEN None ELSE ByDescValue(items, d[Least(hits)])

\* strategy 4: the first description holding the name
NameMatch(items, item) ==
    LET d == Descriptions(items)
        norm_name == normalize(item["name"])
        hits == {k \in ByDescOrder(items) : IsSubstring(norm_name, d[k])}
    IN  IF hits = {} THEN None ELSE ByDescValue(items, d[Least(hits)])

NameOnlyAlways(variation) == TRUE
\* `if not variation:` guards strategy 4
NameOnlyApplies(variation) == variation = ""

find_heartland_item(items, item) ==
    LET variation == ItemVariation(item)
    IN  IF ExactMatch(items, item) # None THEN ExactMatch(items, item)
        ELSE IF variation # "" /\ BothMatch(items, item) # None
             THEN BothMatch(items, item)
        ELSE IF NameOnlyApplies(variation) /\ NameMatch(items, item) # None
             THEN NameMatch(items, item)
        ELSE None

\* catalog descriptions: the exact forms, differently spaced and cased, a
\* description holding name and variation, one holding the name only, and
\* an unrelated one
DescriptionUniverse ==
    {"Stand - Red", " STAND  -  red", "Stand", "Red Stand Large", "Stand Blue", "Shelf"}

PublicIds == {"H1", "H2"}

CatalogUniverse ==
    {CatalogItem(d, p) : d \in DescriptionUniverse, p \in PublicIds}

\* order items as extract_order_details writes them, with and without the
\* optional variation key
OrderItemUniverse ==
    {("name" :> n) : n \in {"Stand", " stand", ""}}
    \cup {("name" :> n) @@ ("variation" :> v) :
            n \in {"Stand", " stand", ""}, v \in {"Red", "", " "}}

CatalogInit ==
    /\ NoPaging
    /\ prog = "find_heartland_item"
    /\ pc = "start"
    /\ NoDetail
    /\ raised = "none"
    /\ NoMain
    /\ NoScan
    /\ catalog \in SeqUpTo(CatalogUniverse, MaxCatalog)
    /\ order_item \in OrderItemUniverse
    /\ heartland_item = Unstarted

FindHeartlandItem ==
    /\ prog = "find_heartland_item"
    /\ pc = "start"
    /\ heartland_item' = find_heartland_item(catalog, order_item)
    /\ pc' = "done"
    /\ UNCHANGED <<pageVars, prog, fetchVars, findVars, detailVars, raised,
                   mainVars, scanVars, catalog, order_item>>

CatalogNext == FindHeartlandItem

SpecCatalog == CatalogInit /\ [][CatalogNext]_vars

\* the catalog positions strategy s matches, each strategy as the docstring
\* words it
DocstringMatches(s) ==
    LET d == Descriptions(catalog)
        name == order_item["name"]
        variation == ItemVariation(order_item)
    IN  {k \in 1..Len(catalog) :
            CASE s = 1 -> d[k] = normalize(name \o " - " \o variation)
              [] s = 2 -> d[k] = normalize(name)
              [] s = 3 -> /\ IsSubstring(normalize(name), d[k])
                          /\ IsSubstring(normalize(variation), d[k])
              [] s = 4 -> IsSubstring(normalize(name), d[k])}

\* whether strategy s is tried at all for this order item
Applicable(s) ==
    LET variation == ItemVariation(order_item)
    IN  CASE s = 1 -> variation # ""
          [] s = 2 -> normalize(order_item["name"]) # ""
          [] s = 3 -> variation # ""
          [] s = 4 -> variation = ""

ApplicableMatches(s) == IF Applicable(s) THEN DocstringMatches(s) ELSE {}

Returned == prog = "find_heartland_item" /\ pc = "done"

MaxScan == 4

IsNoisePriceOnly(line) == IsPriceLine(line)
\* if re.match(r"^\$", line) or line == "Variation": i += 1; continue
IsNoise(line) == IsPriceLine(line) \/ line = "Variation"

TakesValueAlways(item_lines, i) == i <= Len(item_lines)
\* if i < len(item_lines) and not re.match(r"^\$", item_lines[i])
TakesValue(item_lines, i) ==
    i <= Len(item_lines) /\ ~IsPriceLine(item_lines[i])

\* a line consumed in `role` for item number `item`, 0 when for no item
Role(role, item) == [role |-> role, item |-> item]

\* the loop body at an item name at cursor i, for the n-th item: the item
\* built, the role of each line it consumed, and the cursor afterwards
NameStep(item_lines, i, n) ==
    LET line == item_lines[i]
        item0 == [name |-> ItemName(line), quantity |-> ItemQuantity(line)]
        i1 == i + 1
        hasMarker == i1 <= Len(item_lines) /\ item_lines[i1] = "Variation"
        i2 == IF hasMarker THEN i1 + 1 ELSE i1
        hasValue == hasMarker /\ TakesValue(item_lines, i2)
        item1 == IF hasValue
                 THEN DictSet(item0, "variation", item_lines[i2])
                 ELSE item0
        i3 == IF hasValue THEN i2 + 1 ELSE i2
        hasPrice == i3 <= Len(item_lines) /\ IsPriceLine(item_lines[i3])
        item2 == IF hasPrice
                 THEN DictSet(item1, "price", item_lines[i3])
                 ELSE item1
        i4 == IF hasPrice THEN i3 + 1 ELSE i3
    IN  [item |-> item2,
         consumed |-> <<Role("name", n)>>
                      \o (IF hasMarker THEN <<Role("marker", n)>> ELSE <<>>)
                      \o (IF hasValue THEN <<Role("value", n)>> ELSE <<>>)
                      \o (IF hasPrice THEN <<Role("price", n)>> ELSE <<>>),
         next |-> i4]

\* item_lines = [l for l in lines[items_start + 1 : items_end] if ...]; i = 0
ScanFilter ==
    /\ prog = "item_scan"
    /\ pc = "filter"
    /\ scan_lines' = ItemLines(StripAll(text))
    /\ scan_i' = 1
    /\ pc' = "loop"
    /\ UNCHANGED <<pageVars, prog, fetchVars, findVars, detailVars, raised,
                   mainVars, scan_items, roles, matchVars>>

\* an iteration that meets a price line or a bare 'Variation'
ScanSkip ==
    /\ prog = "item_scan"
    /\ pc = "loop"
    /\ scan_i <= Len(scan_lines)
    /\ IsNoise(scan_lines[scan_i])
    /\ scan_i' = scan_i + 1
    /\ roles' = Append(roles, Role("noise", 0))
    /\ UNCHANGED <<pageVars, prog, pc, fetchVars, findVars, detailVars, raised,
                   mainVars, scan_lines, scan_items, matchVars>>

\* an iteration that meets an item name
ScanItem ==
    /\ prog = "item_scan"
    /\ pc = "loop"
    /\ scan_i <= Len(scan_lines)
    /\ ~IsNoise(scan_lines[scan_i])
    /\ LET step == NameStep(scan_lines, scan_i, Len(scan_items) + 1)
       IN  /\ scan_items' = Append(scan_items, step.item)
           /\ roles' = roles \o step.consumed
           /\ scan_i' = step.next
    /\ UNCHANGED <<pageVars, prog, pc, fetchVars, findVars, detailVars, raised,
                   mainVars, scan_lines, matchVars>>

\* while i < len(item_lines) fails
ScanDone ==
    /\ prog = "item_scan"
    /\ pc = "loop"
    /\ scan_i > Len(scan_lines)
    /\ pc' = "done"
    /\ UNCHANGED <<pageVars, prog, fetchVars, findVars, detailVars, raised,
                   mainVars, scanVars, matchVars>>

\* lines that can stand between the two markers: names with and without a
\* quantity, the variation marker, prices, blank lines and the metadata line
ScanUniverse ==
    {"Widget x10", "Red", "Variation", "$5.00", "", "Order placed",
     "Order placed at 1/19/2026, 8:00 PM"}

ScanInit ==
    /\ NoPaging
    /\ prog = "item_scan"
    /\ pc = "filter"
    /\ \E block \in SeqUpTo(ScanUniverse, MaxScan) :
           text = <<"Items (2)">> \o block \o <<"Subtotal">>
    /\ imgs = <<>>
    /\ groups = <<>>
    /\ details = None
    /\ raised = "none"
    /\ NoMain
    /\ NoScan
    /\ NoCatalog

ScanNext == ScanFilter \/ ScanSkip \/ ScanItem \/ ScanDone

SpecScan == ScanInit /\ [][ScanNext]_vars

\* the positions of the block consumed in the given role
RolePositions(role) == {k \in 1..Len(roles) : roles[k].role = role}

\* the positions of the block consumed by item n
ItemPositions(n) == {k \in 1..Len(roles) : roles[k].item = n}

Scanning == prog = "item_scan" /\ pc \in {"loop", "done"}

\* every line before the cursor has one role, no line at or after it has
\* any, and each item took its fields from lines of its own, in the order
\* name, marker, value, price
ConsumedOnce ==
    /\ Len(roles) = scan_i - 1
    /\ scan_i <= Len(scan_lines) + 1
    /\ pc = "done" => Len(roles) = Len(scan_lines)
    /\ \A k \in 1..Len(roles) :
           /\ roles[k].role \in {"noise", "name", "marker", "value", "price"}
           /\ roles[k].role = "noise" <=> roles[k].item = 0
           /\ roles[k].role # "noise" => roles[k].item \in 1..Len(scan_items)
    /\ \A n \in 1..Len(scan_items) :
           LET own == ItemPositions(n)
               item == scan_items[n]
           IN  /\ own # {}
               /\ own = Least(own)..Greatest(own)
               /\ roles[Least(own)].role = "name"
               /\ \A r \in {"name", "marker", "value", "price"} :
                      Cardinality(own \cap RolePositions(r)) <= 1
               /\ \A k \in own :
                      /\ roles[k].role = "name" =>
                             item["name"] = ItemName(scan_lines[k])
                      /\ roles[k].role = "marker" => scan_lines[k] = "Variation"
                      /\ roles[k].role = "value" =>
                             item["variation"] = scan_lines[k]
                      /\ roles[k].role = "price" =>
                             item["price"] = scan_lines[k]
               /\ "variation" \in DOMAIN item =>
                      own \cap RolePositions("value") # {}
               /\ "price" \in DOMAIN item =>
                      own \cap RolePositions("price") # {}

\* a price line or a bare 'Variation' met while a name is awaited is noise,
\* and no such line is ever taken as a name
NoiseNeverNamed ==
    /\ \A k \in RolePositions("noise") : IsNoise(scan_lines[k])
    /\ \A k \in RolePositions("name") :
           ~IsPriceLine(scan_lines[k]) /\ scan_lines[k] # "Variation"

\* C15: the cursor grows on every loop iteration, every line of the filtered
\* block is consumed exactly once in one role and for at most one item, and
\* a '$' line or a bare 'Variation' awaiting a name is skipped, never named
C15_EachLineConsumedOnce ==
    /\ [](Scanning => ConsumedOnce /\ NoiseNeverNamed)
    /\ [][(pc = "loop" /\ pc' = "loop") => scan_i' > scan_i]_vars

\* a finished scan of two items with noise before the first and between them
C15_Witness ==
    /\ prog = "item_scan"
    /\ pc = "done"
    /\ Len(scan_items) = 2
    /\ RolePositions("noise") # {}
    /\ roles[1].role = "noise"
    /\ \E k \in RolePositions("noise") : scan_lines[k] = "Variation"
    /\ scan_items = ScanItems(scan_lines, 1, <<>>)


\* the item emitted for the name line at position k
ItemAt(k) == scan_items[roles[k].item]

\* C17: a name followed by 'Variation' and then a '$' line yields an item
\* with no variation whose price is that '$' line; a name followed by a
\* closing 'Variation' yields an item with neither variation nor price; and
\* every name line yields exactly one item
C17_VariationWithoutValue ==
    Scanning =>
        /\ Len(scan_items) = Cardinality(RolePositions("name"))
        /\ \A n \in 1..Len(scan_items) :
               Cardinality(ItemPositions(n) \cap RolePositions("name")) = 1
        /\ \A k \in RolePositions("name") :
               /\ ( /\ k + 2 <= Len(scan_lines)
                    /\ scan_lines[k + 1] = "Variation"
                    /\ IsPriceLine(scan_lines[k + 2]) )
                  => /\ "variation" \notin DOMAIN ItemAt(k)
                     /\ "price" \in DOMAIN ItemAt(k)
                     /\ ItemAt(k)["price"] = scan_lines[k + 2]
               /\ ( /\ k + 1 = Len(scan_lines)
                    /\ scan_lines[k + 1] = "Variation" )
                  => DOMAIN ItemAt(k) = {"name", "quantity"}

\* a finished scan whose first item met 'Variation' and then its price
C17_Witness ==
    /\ prog = "item_scan"
    /\ pc = "done"
    /\ Len(scan_lines) >= 3
    /\ roles[1].role = "name"
    /\ scan_lines[2] = "Variation"
    /\ IsPriceLine(scan_lines[3])
    /\ DOMAIN scan_items[1] = {"name", "quantity", "price"}
    /\ scan_items[1]["price"] = scan_lines[3]


\* the stripped lines between the 'Items (N)' marker and the 'Subtotal'
\* marker of the page
MarkerBlock ==
    LET ls == StripAll(text)
    IN  SubSeq(ls, 2, Len(ls) - 1)

KeptUnlessExact(l) == ~(l = "" \/ l = "Order placed")

KeptUnlessPrefixed(l) == ~(l = "" \/ StartsWith(l, "Order placed"))

\* C18 as stated: only blank lines and lines equal to 'Order placed' are
\* withheld from the item scan
C18_OnlyExactMetadataDropped ==
    Scanning => scan_lines = SelectSeq(MarkerBlock, KeptUnlessExact)

\* C18 amended: the lines withheld from the item scan are the blank lines
\* and the lines that begin with 'Order placed'; every other line between
\* the markers is passed on, in order
C18_PrefixedMetadataDropped ==
    Scanning => scan_lines = SelectSeq(MarkerBlock, KeptUnlessPrefixed)

\* a block with a name and the 'Order placed at ...' line, scanned without it
C18_Witness ==
    /\ Scanning
    /\ \E k \in 1..Len(MarkerBlock) :
           MarkerBlock[k] = "Order placed at 1/19/2026, 8:00 PM"
    /\ \E k \in 1..Len(MarkerBlock) : MarkerBlock[k] = "Widget x10"
    /\ \A k \in 1..Len(scan_lines) : ~StartsWith(scan_lines[k], "Order placed")
    /\ Len(scan_lines) >= 1


\* C16: seen_count never decreases, extract_all_orders goes from the wait
\* after a click to another iteration only when more summary rows are on
\* display than seen_count, and every iteration after the first appends at
\* least one row to all_orders
C16_IterationAddsRow ==
    [][/\ seen_count' >= seen_count
       /\ (prog = "extract_all_orders" /\ pc = "wait" /\ pc' = "parse")
              => Len(VisibleRows) > seen_count
       /\ (prog = "extract_all_orders" /\ pc = "parse" /\ pc' # pc /\ clicks > 0)
              => Len(all_orders') > Len(all_orders)]_vars


\* the position of the first event ev in the log, 0 if it has not happened
EventIndex(ev) == FirstIndex({k \in 1..Len(log) : log[k].ev = ev})

\* the outcomes of the three steps of click_order_history, in program order,
\* and where main stands after each
HistoryStages ==
    <<{"click_order_history", "timeout_order_history"},
      {"click_all_orders", "timeout_all_orders"},
      {"order_data_visible", "timeout_order_data"}>>

HistoryPositions == <<"history", "all_orders", "order_data">>

\* C19: a timeout of the wait for the 'Order history' button or for the
\* 'All orders' control raises nothing and skips only that step's click:
\* after login the log holds one outcome of the first step, then one of the
\* second, then the outcome of the mandatory wait for a summary row, and
\* while a step is still to come main stands at it with no exception
C19_OptionalTimeoutNonFatal ==
    LET p == EventIndex("login_detected")
    IN  p # 0 =>
            /\ \A j \in 1..3 :
                   Len(log) >= p + j => log[p + j].ev \in HistoryStages[j]
            /\ \A j \in 0..2 :
                   Len(log) = p + j =>
                       raised = "none" /\ mpc = HistoryPositions[j + 1]
            /\ ~(Happened("click_order_history") /\ Happened("timeout_order_history"))
            /\ ~(Happened("click_all_orders") /\ Happened("timeout_all_orders"))

\* both optional steps timed out and the summary rows were still waited for
\* and found
C19_Witness ==
    /\ Happened("timeout_order_history")
    /\ Happened("timeout_all_orders")
    /\ Happened("order_data_visible")
    /\ ~Happened("click_order_history")
    /\ ~Happened("click_all_orders")
    /\ order_index.kind = "int"

\* C20: once find_order_index has returned None, main lists the available
\* summary rows and exits with a failure status, and never clicks a 'Track
\* order' link, calls extract_order_details or writes a file; a click, and
\* all that follows it, happens only with an index
C20_NotFoundExitsWithoutTracking ==
    /\ order_index = None =>
           /\ TrackClicks = <<>>
           /\ mpc \in {"find", "exited"}
           /\ ~Happened("new_page")
           /\ details = None
           /\ outfile = None
           /\ mpc = "exited" =>
                  /\ status = "exit_1"
                  /\ Happened("list_rows")
                  /\ log[Len(log)].ev = "browser_close"
    /\ (TrackClicks # <<>> \/ mpc \in {"track", "extract"} \/ outfile # None)
           => order_index.kind = "int"

\* a run that found no row of the target date among the rows it lists
C20_Witness ==
    /\ mpc = "exited"
    /\ order_index = None
    /\ status = "exit_1"
    /\ \E k \in 1..Len(log) : log[k].ev = "list_rows" /\ log[k].n > 0
    /\ TrackClicks = <<>>
    /\ outfile = None


\* extract_all_orders has done the bookkeeping of an iteration
Bookkept == prog = "extract_all_orders" /\ pc \in {"see_more", "wait", "done"}

\* C21: on a page that only reveals further lines, after the bookkeeping of
\* every iteration of extract_all_orders all_orders has seen_count elements
\* and is the list that iteration parsed, which is the summary rows on
\* display at that parse; so is the list returned
C21_AllOrdersIsLastParse ==
    /\ [](Bookkept => Len(all_orders) = seen_count /\ all_orders = orders)
    /\ [][(prog = "extract_all_orders" /\ pc = "parse" /\ pc' = "see_more")
              => /\ all_orders' = extract_orders_from_text(Page, links)
                 /\ Rows(all_orders') = VisibleRows
                 /\ seen_count' = Len(VisibleRows)]_vars

\* two rows returned after more than one iteration, from a fully revealed
\* page of which a proper prefix shows one row only
C21_Witness ==
    /\ prog = "extract_all_orders"
    /\ pc = "done"
    /\ clicks > 0
    /\ Len(all_orders) = 2
    /\ Len(all_orders) = seen_count
    /\ all_orders = orders
    /\ shown = Len(full)
    /\ \E k \in 1..(Len(full) - 1) :
           Len(extract_orders_from_text(SubSeq(full, 1, k), links)) = 1

====
